---- MODULE Spec2Model ----
(***************************************************************************)
(* Model of package extenderr.  The repository holds two versions of the   *)
(* package:                                                                *)
(*   - the four-wrapper version (src/unnamed/part_000): WithHumanMessage,  *)
(*     WithErrorCode, WithHttpStatus, WithTags and their extractors;       *)
(*   - the named/tagged version (src/extenderr.go): NewNamed, NewTags,     *)
(*     IsNamed, IsAnyCauseNamed, IsRootCauseNamed, GetTags, GetTagMap.     *)
(*                                                                         *)
(* An error value is modelled as the sequence of its chain's nodes,        *)
(* outermost first; the nil error is the empty sequence.  A wrapper node   *)
(* holds its inner error, which is the rest of the sequence (a wrapper     *)
(* that is the last node of the sequence wraps nil).  A node without an    *)
(* Unwrap method is always the last node.                                  *)
(***************************************************************************)
EXTENDS Integers, Sequences, FiniteSets, TLC

VARIABLES impl, err, op, arg, in, out, walk

vars == <<impl, err, op, arg, in, out, walk>>

\* Longest chain the model builds.
MaxDepth == 3

Nil == <<>>

Node(kind, text, num, kv) == [kind |-> kind, text |-> text, num |-> num, kv |-> kv]

\* Input domains of the operations.
Messages  == {"", "oops"}
Codes     == {0, 1, 2}
Statuses  == {0, 500}
Names     == {"", "N", "M"}
TagLists  == {<<>>, <<"k">>, <<"k", "outer">>, <<"k", "inner">>, <<"j", "v", "k">>}
NamedTagLists == {<<>>, <<"k", "inner">>}
ForeignTagLists == {<<"k">>, <<"k", "v">>}
WrapTexts == {"ctx"}
RootTexts == {"X"}

(***************************************************************************)
(* Method sets of the node types.                                          *)
(***************************************************************************)

\* wrapper: Unwrap() error.
HasUnwrap(n) ==
    n.kind \in {"withHumanMessage", "withErrorCode", "withHttpStatus", "withTags",
                "extended", "pkgWrap"}

\* extended without its Cause method.
HasCause_noExtendedCause(n) == n.kind \in {"pkgWrap"}

\* causer of github.com/pkg/errors: Cause() error.
HasCause(n) == n.kind \in {"extended", "pkgWrap"}

\* tagger / tagged: Tags() []interface{}.
HasTags(n) == n.kind \in {"withTags", "extended", "foreignTagged"}

\* The type assertions err.(I): false on the nil interface value.
IsWrapper(e)      == e # Nil /\ HasUnwrap(Head(e))
IsCauser(e)       == e # Nil /\ HasCause(Head(e))
IsTagger(e)       == e # Nil /\ HasTags(Head(e))
IsHumanMessage(e) == e # Nil /\ Head(e).kind = "withHumanMessage"
IsErrorCoder(e)   == e # Nil /\ Head(e).kind = "withErrorCode"
IsHttpStatuser(e) == e # Nil /\ Head(e).kind = "withHttpStatus"
IsExtended(e)     == e # Nil /\ Head(e).kind = "extended"

\* e.Unwrap() and e.Cause(): the embedded error.
Unwrap(e) == Tail(e)
Cause(e)  == Tail(e)

(***************************************************************************)
(* The visitors (closures of type errorIterator).  A closure is modelled   *)
(* by its name v, its captured argument a, and the value s of the variable *)
(* it captures; calling it on e gives the variable's new value and the     *)
(* boolean it returns.                                                     *)
(***************************************************************************)

EmptyMap == [k \in {} |-> ""]

\* An assignment that keeps the value already stored under the key.
MapPut_keepFirst(m, k, v) ==
    [x \in (DOMAIN m) \cup {k} |-> IF x \in DOMAIN m THEN m[x] ELSE v]

\* allTags[tags[i]] = tags[i+1]
MapPut(m, k, v) == [x \in (DOMAIN m) \cup {k} |-> IF x = k THEN v ELSE m[x]]

\* Making the slice even by dropping the unpaired key.
padTags_dropLast(tags) ==
    IF Len(tags) % 2 # 0 THEN SubSeq(tags, 1, Len(tags) - 1) ELSE tags

\* if len(tags) % 2 != 0 { tags = append(tags, "unbalanced tag") }
padTags(tags) == IF Len(tags) % 2 # 0 THEN Append(tags, "unbalanced tag") ELSE tags

\* for i := 0; i < len(tags); i = i+2 { allTags[tags[i]] = tags[i+1] }
\* (i is the 1-based index here)
RECURSIVE insertPairs(_, _, _)
insertPairs(allTags, tags, i) ==
    IF i > Len(tags) THEN allTags
    ELSE insertPairs(MapPut(allTags, tags[i], tags[i + 1]), tags, i + 2)

\* ---- four-wrapper version ----

humanMessageVisit(message, e) ==
    LET m == IF IsHumanMessage(e) THEN Head(e).text ELSE message
    IN  [state |-> m, ret |-> m # ""]

\* A visitor that records the code and never signals a stop.
errorCodeVisit_neverStops(errorCode, e) ==
    [state |-> IF IsErrorCoder(e) THEN Head(e).num ELSE errorCode, ret |-> FALSE]

errorCodeVisit(errorCode, e) ==
    LET c == IF IsErrorCoder(e) THEN Head(e).num ELSE errorCode
    IN  [state |-> c, ret |-> c # 0]

httpStatusVisit(status, e) ==
    LET c == IF IsHttpStatuser(e) THEN Head(e).num ELSE status
    IN  [state |-> c, ret |-> c # 0]

tagsVisit(allTags, e) ==
    [state |-> IF IsTagger(e) THEN allTags \o Head(e).kv ELSE allTags, ret |-> FALSE]

tagMapVisit(allTags, e) ==
    [state |-> IF IsTagger(e) THEN insertPairs(allTags, padTags(Head(e).kv), 1)
               ELSE allTags,
     ret |-> FALSE]

\* ---- named/tagged version ----

\* IsNamed without the test for the empty name.
IsNamed_noEmptyCheck(e, name) == IsExtended(e) /\ Head(e).text = name

IsNamed(e, name) ==
    IF IsExtended(e)
    THEN IF Head(e).text = "" THEN FALSE ELSE Head(e).text = name
    ELSE FALSE

isNamedVisit(name, s, e) == [state |-> s, ret |-> IsNamed(e, name)]

getTagsVisit(allTags, e) ==
    [state |-> IF IsTagger(e) THEN allTags \o Head(e).kv ELSE allTags, ret |-> FALSE]

getTagMapVisit(allTags, e) ==
    [state |-> IF IsTagger(e) THEN insertPairs(allTags, padTags(Head(e).kv), 1)
               ELSE allTags,
     ret |-> FALSE]

\* f(err)
visit(v, a, s, e) ==
    CASE v = "HumanMessage"    -> humanMessageVisit(s, e)
      [] v = "ErrorCode"       -> errorCodeVisit(s, e)
      [] v = "HttpStatus"      -> httpStatusVisit(s, e)
      [] v = "Tags"            -> tagsVisit(s, e)
      [] v = "TagMap"          -> tagMapVisit(s, e)
      [] v = "IsAnyCauseNamed" -> isNamedVisit(a, s, e)
      [] v = "GetTags"         -> getTagsVisit(s, e)
      [] v = "GetTagMap"       -> getTagMapVisit(s, e)

(***************************************************************************)
(* The chain walkers.  A walk yields the boolean it returns, the final     *)
(* value of the visitor's captured variable, and the sequence of visitor   *)
(* calls it made: the error passed and the boolean returned.               *)
(***************************************************************************)

NoWalk == [called |-> FALSE, ret |-> FALSE, visits |-> <<>>]

Called(w) == [called |-> TRUE, ret |-> w.ret, visits |-> w.visits]

\* Four-wrapper version: the loop and the final return f(err).
RECURSIVE walkLoop(_, _, _, _, _)
walkLoop(e, v, a, s, visits) ==
    LET r  == visit(v, a, s, e)
        vs == Append(visits, [arg |-> e, ret |-> r.ret])
    IN  IF e = Nil
        THEN \* loop exit: return f(err)
             [ret |-> r.ret, state |-> r.state, visits |-> vs]
        ELSE IF r.ret
        THEN [ret |-> TRUE, state |-> r.state, visits |-> vs]
        ELSE IF ~IsWrapper(e)
        THEN \* break; return f(err)
             LET r2 == visit(v, a, r.state, e)
             IN  [ret |-> r2.ret, state |-> r2.state,
                  visits |-> Append(vs, [arg |-> e, ret |-> r2.ret])]
        ELSE walkLoop(Unwrap(e), v, a, r.state, vs)

walkErrorChain(e, v, a, s0) ==
    IF e = Nil
    THEN [ret |-> FALSE, state |-> s0, visits |-> <<>>]
    ELSE walkLoop(e, v, a, s0, <<>>)

\* Named/tagged version: no test for nil before the loop.
RECURSIVE walkErrorChainNamed(_, _, _, _, _)
walkErrorChainNamed(e, v, a, s, visits) ==
    LET r  == visit(v, a, s, e)
        vs == Append(visits, [arg |-> e, ret |-> r.ret])
    IN  IF e = Nil
        THEN [ret |-> r.ret, state |-> r.state, visits |-> vs]
        ELSE IF r.ret
        THEN [ret |-> TRUE, state |-> r.state, visits |-> vs]
        ELSE IF ~IsWrapper(e)
        THEN LET r2 == visit(v, a, r.state, e)
             IN  [ret |-> r2.ret, state |-> r2.state,
                  visits |-> Append(vs, [arg |-> e, ret |-> r2.ret])]
        ELSE walkErrorChainNamed(Unwrap(e), v, a, r.state, vs)

(***************************************************************************)
(* Extraction functions.  Each yields its return value (out) and the walk  *)
(* it made.                                                                *)
(***************************************************************************)

\* ---- four-wrapper version ----

HumanMessage(errToWalk) ==
    IF errToWalk = Nil THEN [out |-> "", walk |-> NoWalk]
    ELSE LET w == walkErrorChain(errToWalk, "HumanMessage", "", "")
         IN  [out |-> w.state, walk |-> Called(w)]

ErrorCode(errToWalk) ==
    IF errToWalk = Nil THEN [out |-> 0, walk |-> NoWalk]
    ELSE LET w == walkErrorChain(errToWalk, "ErrorCode", "", 0)
         IN  [out |-> w.state, walk |-> Called(w)]

HttpStatus(errToWalk) ==
    IF errToWalk = Nil THEN [out |-> 0, walk |-> NoWalk]
    ELSE LET w == walkErrorChain(errToWalk, "HttpStatus", "", 0)
         IN  [out |-> w.state, walk |-> Called(w)]

Tags(errToWalk) ==
    LET w == walkErrorChain(errToWalk, "Tags", "", <<>>)
    IN  [out |-> w.state, walk |-> Called(w)]

TagMap(errToWalk) ==
    LET w == walkErrorChain(errToWalk, "TagMap", "", EmptyMap)
    IN  [out |-> w.state, walk |-> Called(w)]

\* ---- named/tagged version ----

IsAnyCauseNamed(errToWalk, name) ==
    LET w == walkErrorChainNamed(errToWalk, "IsAnyCauseNamed", name, "", <<>>)
    IN  [out |-> w.ret, walk |-> Called(w)]

\* errors.Cause of github.com/pkg/errors, as IsRootCauseNamed calls it:
\*   for err != nil { cause, ok := err.(causer); if !ok { break }; err = cause.Cause() }
\*   return err
RECURSIVE errorsCause(_)
errorsCause(e) ==
    IF e = Nil THEN Nil
    ELSE IF ~IsCauser(e) THEN e
    ELSE errorsCause(Cause(e))

IsRootCauseNamed(errToWalk, name) ==
    [out |-> IsNamed(errorsCause(errToWalk), name), walk |-> NoWalk]

GetTags(errToWalk) ==
    LET w == walkErrorChainNamed(errToWalk, "GetTags", "", <<>>, <<>>)
    IN  [out |-> w.state, walk |-> Called(w)]

GetTagMap(errToWalk) ==
    LET w == walkErrorChainNamed(errToWalk, "GetTagMap", "", EmptyMap, <<>>)
    IN  [out |-> w.state, walk |-> Called(w)]

(***************************************************************************)
(* Error(): the short description.  Calling Error on the nil inner error   *)
(* of an extended node panics; the panic is the value Panic.               *)
(***************************************************************************)

Panic == "panic: nil pointer dereference"

Prefixed(prefix, inner) == IF inner = Panic THEN Panic ELSE prefix \o inner

RECURSIVE Error(_)

withHumanMessageError(e) == Prefixed(Head(e).text \o ": ", Error(Unwrap(e)))

\* A format string without the space before the colon.
withErrorCodeError_noSpace(e) ==
    Prefixed("error code " \o ToString(Head(e).num) \o ": ", Error(Unwrap(e)))

\* fmt.Sprintf("error code %d : ", e.errorCode) + e.Unwrap().Error()
withErrorCodeError(e) ==
    Prefixed("error code " \o ToString(Head(e).num) \o " : ", Error(Unwrap(e)))

\* fmt.Sprintf("http status %d : ", e.httpStatus) + e.Unwrap().Error()
withHttpStatusError(e) ==
    Prefixed("http status " \o ToString(Head(e).num) \o " : ", Error(Unwrap(e)))

withTagsError(e) == Error(Unwrap(e))

\* string(e.name) + ": " + e.Cause().Error()
extendedError(e) ==
    IF Cause(e) = Nil THEN Panic ELSE Prefixed(Head(e).text \o ": ", Error(Cause(e)))

\* withMessage.Error of github.com/pkg/errors: msg + ": " + cause.Error()
pkgWrapError(e) == Prefixed(Head(e).text \o ": ", Error(Unwrap(e)))

Error(e) ==
    CASE Head(e).kind = "withHumanMessage" -> withHumanMessageError(e)
      [] Head(e).kind = "withErrorCode"    -> withErrorCodeError(e)
      [] Head(e).kind = "withHttpStatus"   -> withHttpStatusError(e)
      [] Head(e).kind = "withTags"         -> withTagsError(e)
      [] Head(e).kind = "extended"         -> extendedError(e)
      [] Head(e).kind = "pkgWrap"          -> pkgWrapError(e)
      [] OTHER                             -> Head(e).text

(***************************************************************************)
(* Constructors.                                                           *)
(***************************************************************************)

WithHumanMessage(e, message) ==
    IF e = Nil THEN e ELSE <<Node("withHumanMessage", message, 0, <<>>)>> \o e

WithErrorCode(e, errorCode) ==
    IF e = Nil THEN e ELSE <<Node("withErrorCode", "", errorCode, <<>>)>> \o e

WithHttpStatus(e, status) ==
    IF e = Nil THEN e ELSE <<Node("withHttpStatus", "", status, <<>>)>> \o e

WithTags(e, keysAndValues) ==
    IF e = Nil THEN e ELSE <<Node("withTags", "", 0, keysAndValues)>> \o e

NewNamed(e, name, keysAndValues) == <<Node("extended", name, 0, keysAndValues)>> \o e

NewTags(e, keysAndValues) == <<Node("extended", "", 0, keysAndValues)>> \o e

\* errors.New of github.com/pkg/errors: an error with no Unwrap and no Cause.
errorsNew(text) == <<Node("fundamental", text, 0, <<>>)>>

\* errors.Wrap of github.com/pkg/errors: nil for nil; otherwise a node with
\* Cause and Unwrap whose Error is message + ": " + cause.Error().  (Wrap puts
\* a stack node around the message node; the stack node forwards Error, Cause
\* and Unwrap and carries none of the capabilities, so one node stands for both.)
errorsWrap(e, message) ==
    IF e = Nil THEN Nil ELSE <<Node("pkgWrap", message, 0, <<>>)>> \o e

\* An error type of the caller that implements the tag interface itself and
\* has no Unwrap method.
foreignTagged(text, keysAndValues) == <<Node("foreignTagged", text, 0, keysAndValues)>>

(***************************************************************************)
(* The state machine: a caller builds an error chain in err with the       *)
(* constructors and queries it with the extraction functions.  op, arg, in *)
(* and out record the last call, its argument, the error it was given and  *)
(* what it returned; walk records the chain walk the call made.            *)
(***************************************************************************)

Init ==
    /\ impl \in {"wrappers", "named"}
    /\ err = Nil
    /\ op = "init"
    /\ arg = ""
    /\ in = Nil
    /\ out = Nil
    /\ walk = NoWalk

\* A call that returns an error, which the caller keeps.
Construct(name, a, result) ==
    /\ Len(result) <= MaxDepth
    /\ op' = name
    /\ arg' = a
    /\ in' = err
    /\ out' = result
    /\ err' = result
    /\ walk' = NoWalk
    /\ UNCHANGED impl

\* A call that queries the error.
Extract(name, a, r) ==
    /\ op' = name
    /\ arg' = a
    /\ in' = err
    /\ out' = r.out
    /\ walk' = r.walk
    /\ UNCHANGED <<impl, err>>

CallErrorsNew ==
    /\ impl \in {"wrappers", "named"}
    /\ \E t \in RootTexts : Construct("errors.New", t, errorsNew(t))

CallForeignTagged ==
    /\ impl \in {"wrappers", "named"}
    /\ \E kv \in ForeignTagLists : Construct("foreignTagged", kv, foreignTagged("X", kv))

CallErrorsWrap ==
    /\ impl \in {"wrappers", "named"}
    /\ \E m \in WrapTexts : Construct("errors.Wrap", m, errorsWrap(err, m))

CallWithHumanMessage ==
    /\ impl = "wrappers"
    /\ \E m \in Messages : Construct("WithHumanMessage", m, WithHumanMessage(err, m))

CallWithErrorCode ==
    /\ impl = "wrappers"
    /\ \E c \in Codes : Construct("WithErrorCode", c, WithErrorCode(err, c))

CallWithHttpStatus ==
    /\ impl = "wrappers"
    /\ \E c \in Statuses : Construct("WithHttpStatus", c, WithHttpStatus(err, c))

CallWithTags ==
    /\ impl = "wrappers"
    /\ \E kv \in TagLists : Construct("WithTags", kv, WithTags(err, kv))

CallNewNamed ==
    /\ impl = "named"
    /\ \E n \in Names, kv \in NamedTagLists :
          Construct("NewNamed", [name |-> n, kv |-> kv], NewNamed(err, n, kv))

CallNewTags ==
    /\ impl = "named"
    /\ \E kv \in TagLists : Construct("NewTags", kv, NewTags(err, kv))

CallHumanMessage ==
    /\ impl = "wrappers"
    /\ Extract("HumanMessage", "", HumanMessage(err))

CallErrorCode ==
    /\ impl = "wrappers"
    /\ Extract("ErrorCode", "", ErrorCode(err))

CallHttpStatus ==
    /\ impl = "wrappers"
    /\ Extract("HttpStatus", "", HttpStatus(err))

CallTags ==
    /\ impl = "wrappers"
    /\ Extract("Tags", "", Tags(err))

CallTagMap ==
    /\ impl = "wrappers"
    /\ Extract("TagMap", "", TagMap(err))

\* err.Error(); a nil error has no description to ask for.
CallError ==
    /\ impl \in {"wrappers", "named"}
    /\ err # Nil
    /\ Extract("Error", "", [out |-> Error(err), walk |-> NoWalk])

CallIsNamed ==
    /\ impl = "named"
    /\ \E n \in Names :
          Extract("IsNamed", n, [out |-> IsNamed(err, n), walk |-> NoWalk])

CallIsAnyCauseNamed ==
    /\ impl = "named"
    /\ \E n \in Names : Extract("IsAnyCauseNamed", n, IsAnyCauseNamed(err, n))

CallIsRootCauseNamed ==
    /\ impl = "named"
    /\ \E n \in Names : Extract("IsRootCauseNamed", n, IsRootCauseNamed(err, n))

CallGetTags ==
    /\ impl = "named"
    /\ Extract("GetTags", "", GetTags(err))

CallGetTagMap ==
    /\ impl = "named"
    /\ Extract("GetTagMap", "", GetTagMap(err))

Next ==
    \/ CallErrorsNew
    \/ CallForeignTagged
    \/ CallErrorsWrap
    \/ CallWithHumanMessage
    \/ CallWithErrorCode
    \/ CallWithHttpStatus
    \/ CallWithTags
    \/ CallNewNamed
    \/ CallNewTags
    \/ CallHumanMessage
    \/ CallErrorCode
    \/ CallHttpStatus
    \/ CallTags
    \/ CallTagMap
    \/ CallError
    \/ CallIsNamed
    \/ CallIsAnyCauseNamed
    \/ CallIsRootCauseNamed
    \/ CallGetTags
    \/ CallGetTagMap

Spec == Init /\ [][Next]_vars

(***************************************************************************)
(* Properties.  The Expected... operators state results over the chain as *)
(* a whole (by position), independently of the walkers and visitors.      *)
(***************************************************************************)

Min(S) == CHOOSE x \in S : \A y \in S : x <= y

Last(e) == e[Len(e)]

\* Positions of the nodes of kind k / of kind k with a payload other than zero.
Capable(e, k)        == {i \in 1..Len(e) : e[i].kind = k}
CapableNonZero(e, k) == {i \in Capable(e, k) : e[i].num # 0}
CapableNonEmpty(e)   == {i \in Capable(e, "withHumanMessage") : e[i].text # ""}

Constructors ==
    {"WithHumanMessage", "WithErrorCode", "WithHttpStatus", "WithTags", "NewNamed", "NewTags"}

\* C1: every wrapper constructor (WithHumanMessage, WithErrorCode, WithHttpStatus,
\* WithTags, NewNamed, NewTags) called with the nil error returns the nil error.
C1_NilInNilOut ==
    (op \in Constructors /\ in = Nil) => (out = Nil /\ err = Nil)

\* C2 as stated: ErrorCode, HttpStatus and HumanMessage return the payload of the
\* outermost node that implements the capability (zero value if there is none), and
\* ErrorCode(WithErrorCode(e, c)) = c for every present e and every c.
C2_FirstCapableWins ==
    /\ op = "ErrorCode" =>
          out = (IF Capable(err, "withErrorCode") = {} THEN 0
                 ELSE err[Min(Capable(err, "withErrorCode"))].num)
    /\ op = "HttpStatus" =>
          out = (IF Capable(err, "withHttpStatus") = {} THEN 0
                 ELSE err[Min(Capable(err, "withHttpStatus"))].num)
    /\ op = "HumanMessage" =>
          out = (IF Capable(err, "withHumanMessage") = {} THEN ""
                 ELSE err[Min(Capable(err, "withHumanMessage"))].text)
    /\ (op = "WithErrorCode" /\ in # Nil) => ErrorCode(out).out = arg

\* C2 amended: ErrorCode, HttpStatus and HumanMessage return the payload of the
\* outermost node that implements the capability with a payload other than the zero
\* value, and the zero value if there is none; ErrorCode(WithErrorCode(e, c)) is c
\* for every present e and every c other than 0, and is ErrorCode(e) for c = 0;
\* wrapping with code 1 and then with code 2 yields 2.
C2_FirstNonZeroWins ==
    /\ op = "ErrorCode" =>
          out = (IF CapableNonZero(err, "withErrorCode") = {} THEN 0
                 ELSE err[Min(CapableNonZero(err, "withErrorCode"))].num)
    /\ op = "HttpStatus" =>
          out = (IF CapableNonZero(err, "withHttpStatus") = {} THEN 0
                 ELSE err[Min(CapableNonZero(err, "withHttpStatus"))].num)
    /\ op = "HumanMessage" =>
          out = (IF CapableNonEmpty(err) = {} THEN ""
                 ELSE err[Min(CapableNonEmpty(err))].text)
    /\ (op = "WithErrorCode" /\ in # Nil) =>
          ErrorCode(out).out = (IF arg # 0 THEN arg ELSE ErrorCode(in).out)
    /\ (op = "WithErrorCode" /\ arg = 2 /\ IsErrorCoder(in) /\ Head(in).num = 1) =>
          ErrorCode(out).out = 2

\* ErrorCode has been called on an error wrapped with code 1 and then with code 2.
C2_Witness ==
    /\ op = "ErrorCode"
    /\ Len(err) = 3
    /\ err[1].kind = "withErrorCode" /\ err[1].num = 2
    /\ err[2].kind = "withErrorCode" /\ err[2].num = 1
    /\ out = 2

\* The key/value pairs of the chain: node position, key position, key, value; the
\* unpaired last key of an odd payload has the value "unbalanced tag".
TagPairs(e) ==
    UNION {{[node |-> i, pos |-> p, key |-> e[i].kv[p],
             val |-> IF p + 1 <= Len(e[i].kv) THEN e[i].kv[p + 1] ELSE "unbalanced tag"] :
                p \in {q \in 1..Len(e[i].kv) : q % 2 = 1}} :
           i \in {j \in 1..Len(e) : HasTags(e[j])}}

\* One pair comes later than another: more inner node, or same node and later key.
Later(a, b) == a.node > b.node \/ (a.node = b.node /\ a.pos >= b.pos)

ExpectedTagMap(e) ==
    [k \in {q.key : q \in TagPairs(e)} |->
        (CHOOSE q \in TagPairs(e) :
            /\ q.key = k
            /\ \A r \in TagPairs(e) : r.key = k => Later(q, r)).val]

\* C3: TagMap and GetTagMap return the mapping that takes each key of the chain's
\* tag payloads to its value in the innermost node that has the key, an unpaired
\* last key having the value "unbalanced tag"; the empty mapping for the nil error
\* and for a chain without tag-capable nodes.
C3_TagMapInnerWins ==
    op \in {"TagMap", "GetTagMap"} =>
        /\ out = ExpectedTagMap(err)
        /\ ((\A i \in 1..Len(err) : ~HasTags(err[i])) => out = EmptyMap)

\* TagMap has been called on a chain whose inner tag node has an unpaired key "k"
\* that the outer tag node also holds.
C3_Witness ==
    /\ op = "TagMap"
    /\ Len(err) = 3
    /\ err[1].kind = "withTags" /\ err[1].kv = <<"k", "outer">>
    /\ err[2].kind = "withTags" /\ err[2].kv = <<"j", "v", "k">>
    /\ err[3].kind = "fundamental"
    /\ out = [x \in {"j", "k"} |-> IF x = "j" THEN "v" ELSE "unbalanced tag"]

\* The chain WithTags(WithTags(base, "k", "outer"), "k", "inner") over a present base.
IsC4Chain(e) ==
    /\ Len(e) >= 3
    /\ e[1].kind = "withTags" /\ e[1].kv = <<"k", "inner">>
    /\ e[2].kind = "withTags" /\ e[2].kv = <<"k", "outer">>

\* Some pair of the tag list has key k and value v.
HasPair(tags, k, v) ==
    \E p \in 1..Len(tags) : p % 2 = 1 /\ p < Len(tags) /\ tags[p] = k /\ tags[p + 1] = v

\* C4 as stated: for WithTags(WithTags(base, "k", "outer"), "k", "inner"),
\* TagMap(chain)["k"] is "inner" and Tags(chain) holds both values for "k".
C4_InnerNamedValueWins ==
    (op = "TagMap" /\ IsC4Chain(err)) =>
        /\ out["k"] = "inner"
        /\ HasPair(Tags(err).out, "k", "outer")
        /\ HasPair(Tags(err).out, "k", "inner")

\* C4 amended: for WithTags(WithTags(base, "k", "outer"), "k", "inner") over a present
\* base, TagMap(chain)["k"] is the value of "k" in TagMap(base) if base carries the key
\* "k" and "outer" otherwise (the value of the inner of the two wrappers), and
\* Tags(chain) holds both the value "outer" and the value "inner" for "k".
C4_WrappedValueWins ==
    (op = "TagMap" /\ IsC4Chain(err)) =>
        LET base == SubSeq(err, 3, Len(err))
            bm   == TagMap(base).out
        IN  /\ out["k"] = (IF "k" \in DOMAIN bm THEN bm["k"] ELSE "outer")
            /\ HasPair(Tags(err).out, "k", "outer")
            /\ HasPair(Tags(err).out, "k", "inner")

\* TagMap has been called on the chain of C4 over a plain base error.
C4_Witness ==
    /\ op = "TagMap"
    /\ IsC4Chain(err)
    /\ err[3].kind = "fundamental"
    /\ out["k"] = "outer"

\* The payloads of the tag-capable nodes, outermost first, each once.
RECURSIVE ConcatTags(_)
ConcatTags(e) ==
    IF e = Nil THEN <<>>
    ELSE (IF HasTags(Head(e)) THEN Head(e).kv ELSE <<>>) \o ConcatTags(Tail(e))

\* C5: Tags and GetTags return the concatenation of the payloads of all tag-capable
\* nodes in outer-to-inner order, each payload once, also when the innermost node
\* (without Unwrap) is tag-capable; the empty sequence for the nil error.
C5_TagsEachOnce ==
    op \in {"Tags", "GetTags"} => out = ConcatTags(err)

\* C6: IsAnyCauseNamed(chain, name) is true exactly when some node of the chain is an
\* extended node whose name is not empty and equals name; IsNamed(node, name) is
\* decided by the given node alone.
C6_AnyCauseNamed ==
    /\ op = "IsAnyCauseNamed" =>
          out = (\E i \in 1..Len(err) :
                    err[i].kind = "extended" /\ err[i].text # "" /\ err[i].text = arg)
    /\ op = "IsNamed" =>
          out = (/\ err # Nil
                 /\ err[1].kind = "extended" /\ err[1].text # "" /\ err[1].text = arg)

\* IsAnyCauseNamed has been called with "N" on outer(no name) -> named("N") -> root.
C6_Witness ==
    /\ op = "IsAnyCauseNamed"
    /\ arg = "N"
    /\ Len(err) = 3
    /\ err[1].kind = "extended" /\ err[1].text = ""
    /\ err[2].kind = "extended" /\ err[2].text = "N"
    /\ err[3].kind = "fundamental"
    /\ out = TRUE
    /\ ~IsNamed(err, "N")

\* What a node adds in front of its inner error's description.
Contribution(n) ==
    CASE n.kind = "withErrorCode"    -> "error code " \o ToString(n.num) \o " : "
      [] n.kind = "withHttpStatus"   -> "http status " \o ToString(n.num) \o " : "
      [] n.kind = "withHumanMessage" -> n.text \o ": "
      [] n.kind = "pkgWrap"          -> n.text \o ": "
      [] n.kind = "withTags"         -> ""
      [] OTHER                       -> n.text

\* Contributions of the nodes 1..i, left to right.
RECURSIVE Rendered(_, _)
Rendered(e, i) == IF i = 0 THEN "" ELSE Rendered(e, i - 1) \o Contribution(e[i])

\* C7: the description of a chain is the concatenation, outermost first, of
\* "error code <c> : ", "http status <s> : ", "<text>: " and nothing for code, status,
\* message and tag wrappers, followed by the root's description; wrapping with
\* WithTags never changes the description.
C7_Description ==
    /\ (op = "Error" /\ impl = "wrappers") => out = Rendered(err, Len(err))
    /\ (op = "WithTags" /\ in # Nil) => Error(out) = Error(in)
    /\ (op = "Error" /\ err = WithHttpStatus(WithErrorCode(errorsNew("X"), 1), 500)) =>
          out = "http status 500 : error code 1 : X"

\* Error has been called on WithHttpStatus(WithErrorCode(root("X"), 1), 500).
C7_Witness ==
    /\ op = "Error"
    /\ Len(err) = 3
    /\ err[1].kind = "withHttpStatus" /\ err[1].num = 500
    /\ err[2].kind = "withErrorCode" /\ err[2].num = 1
    /\ err[3].kind = "fundamental" /\ err[3].text = "X"
    /\ out = "http status 500 : error code 1 : X"

\* C8: in a walk in which no earlier node's visitor call returned true, the node
\* without Unwrap at which the walk stops is passed to the visitor exactly once, and
\* that call's result is what the walk returns.
C8_StopNodeVisitedOnce ==
    (/\ walk.called
     /\ err # Nil
     /\ ~HasUnwrap(Last(err))
     /\ \A i \in 1..Len(walk.visits) :
           Len(walk.visits[i].arg) > 1 => ~walk.visits[i].ret)
    => /\ Cardinality({i \in 1..Len(walk.visits) : walk.visits[i].arg = <<Last(err)>>}) = 1
       /\ \A i \in 1..Len(walk.visits) :
             walk.visits[i].arg = <<Last(err)>> => walk.ret = walk.visits[i].ret

\* C9: a walk of the nil error returns false and does not call the visitor, in the
\* four-wrapper version and in the named/tagged version.
C9_NilWalkNoVisit ==
    (walk.called /\ in = Nil) => (walk.ret = FALSE /\ walk.visits = <<>>)

====
